---- MODULE Spec2Model ----
(***************************************************************************)
(* Hotel Bookings dashboard (app.py): the loader, the sidebar filter and   *)
(* the metrics each tab computes, as a state machine over one Streamlit    *)
(* session.  A DataFrame is a record [columns, rows]; a row is a function  *)
(* from column name to value.  adr is a decimal: it is held in units of    *)
(* 1/AdrScale, so that int() and the comparison with the integer slider    *)
(* bounds are computed, not assumed.  A nullable CSV cell is <<>> (NaN) or *)
(* <<v>>.                                                                  *)
(***************************************************************************)
EXTENDS Integers, Sequences, FiniteSets, TLC

\* ---------------------------------------------------------------- bounds
MaxRows == 3
MaxInteractions == 2
AdrScale == 2
MaxDistinct == 11
MaxExtra == 1
MaxSwaps == 2

\* value_counts().head(10)
TopN == 10

\* ------------------------------------------------------------- the data
NaN == <<>>

CsvColumns ==
  {"hotel", "arrival_date_year", "arrival_date_month", "customer_type", "adr",
   "is_canceled", "stays_in_week_nights", "stays_in_weekend_nights",
   "country", "agent", "company", "children",
   "reserved_room_type", "assigned_room_type"}

\* Rows of Hotelbookings.csv as read_csv returns them (adr in 1/AdrScale).
Row(h, y, m, ct, a, c, wk, we, co, ag, cm, ch, rr, ar) ==
  [hotel |-> h, arrival_date_year |-> y, arrival_date_month |-> m,
   customer_type |-> ct, adr |-> a, is_canceled |-> c,
   stays_in_week_nights |-> wk, stays_in_weekend_nights |-> we,
   country |-> co, agent |-> ag, company |-> cm, children |-> ch,
   reserved_room_type |-> rr, assigned_room_type |-> ar]

CsvRows ==
  { Row("City Hotel", 2015, "January", "Transient", 3, 0, 2, 1,
        <<"PRT">>, <<9>>, NaN, <<0>>, "A", "A"),
    Row("Resort Hotel", 2016, "April", "Group", 0, 1, 1, 0,
        NaN, NaN, NaN, NaN, "A", "C"),
    Row("City Hotel", 2016, "April", "Transient", 5, 1, 0, 2,
        <<"GBR">>, <<9>>, <<40>>, <<1>>, "D", "D"),
    Row("Resort Hotel", 2015, "August", "Transient", 4, 0, 1, 1,
        <<"PRT">>, <<14>>, NaN, <<0>>, "A", "A") }

SeqsUpTo(S, n) == UNION { [1..k -> S] : k \in 1..n }

\* pd.read_csv("Hotelbookings.csv"): a non-empty table.
AllCsvTables == { [columns |-> CsvColumns, rows |-> r] : r \in SeqsUpTo(CsvRows, MaxRows) }

\* ------------------------------------------------------------ load_data
fillna(x, v) == IF x = NaN THEN <<v>> ELSE x

ImputeRow(r) ==
  [r EXCEPT !["children"] = fillna(@, 0),
            !["country"] = fillna(@, "Unknown"),
            !["agent"] = fillna(@, -1),
            !["company"] = fillna(@, -1)]

load_data(csv) ==
  [columns |-> csv.columns,
   rows |-> [i \in 1..Len(csv.rows) |-> ImputeRow(csv.rows[i])]]

\* ------------------------------------------------------- pandas helpers
RECURSIVE BoolIndexRows(_, _)
BoolIndexRows(rows, mask) ==
  IF rows = <<>> THEN <<>>
  ELSE LET rest == BoolIndexRows(Tail(rows), Tail(mask))
       IN IF Head(mask) THEN <<Head(rows)>> \o rest ELSE rest

\* df[mask]: a new frame holding the rows whose mask entry is True, in order.
BoolIndex(t, mask) == [columns |-> t.columns, rows |-> BoolIndexRows(t.rows, mask)]

\* isin with an empty selection read as "no restriction".
isin_empty_is_all(v, values) == values = {} \/ v \in values

isin(v, values) == v \in values

\* between with the right bound exclusive.
between_right_open(x, left, right) == left * AdrScale <= x /\ x < right * AdrScale

\* between with an inverted range put back in order.
between_normalised(x, left, right) ==
  IF left <= right
  THEN left * AdrScale <= x /\ x <= right * AdrScale
  ELSE right * AdrScale <= x /\ x <= left * AdrScale

\* Series.between(left, right), inclusive="both"; the bounds are integers.
between(x, left, right) == left * AdrScale <= x /\ x <= right * AdrScale

Column(t, c) == [i \in 1..Len(t.rows) |-> t.rows[i][c]]

Unique(t, c) == { t.rows[i][c] : i \in 1..Len(t.rows) }

\* ------------------------------------------------------------ the filter
FilterMask(t, ht, ys, ms, cts, rng) ==
  [i \in 1..Len(t.rows) |->
      /\ isin(t.rows[i]["hotel"], ht)
      /\ isin(t.rows[i]["arrival_date_year"], ys)
      /\ isin(t.rows[i]["arrival_date_month"], ms)
      /\ isin(t.rows[i]["customer_type"], cts)
      /\ between(t.rows[i]["adr"], rng[1], rng[2])]

FilterRows(t, ht, ys, ms, cts, rng) == BoolIndex(t, FilterMask(t, ht, ys, ms, cts, rng))

\* --------------------------------------------------------------- state
VARIABLES
  csv,             \* Hotelbookings.csv as read_csv parses it
  cache,           \* st.cache_data's stored return value of load_data
  df,              \* the script's df
  hotel_types, years, months, customer_types, adr_range,   \* widget values
  filtered_df,
  kpi1, kpi2, kpi3, kpi4,       \* the four st.metric values of tab 1
  top_countries,
  monthly_adr, adr_over_time,   \* tab 2: the grouped frame and the plotted points
  upgrade_rate,
  month_cancel, revenue_month,
  top_agents,
  pc,              \* the script's position
  runs             \* reruns triggered by the user so far

widgets == <<hotel_types, years, months, customer_types, adr_range>>
results == <<kpi1, kpi2, kpi3, kpi4, top_countries, monthly_adr, adr_over_time,
             upgrade_rate, month_cancel, revenue_month, top_agents>>
vars == <<csv, cache, df, widgets, filtered_df, results, pc, runs>>

\* A name the script has not bound (yet) in this run.
NoFrame == [columns |-> {}, rows |-> <<>>]
NoValue == <<>>

\* ------------------------------------------------------------- numerics
RECURSIVE Sum(_)
Sum(s) == IF s = <<>> THEN 0 ELSE Head(s) + Sum(Tail(s))

\* Series.mean(): NaN for an empty series, else the rational <<sum, count>>.
Mean(s) == IF Len(s) = 0 THEN NaN ELSE <<Sum(s), Len(s)>>

\* Series.sum(): 0 for an empty series.
SeriesSum(s) == Sum(s)

\* num/den rounded to the nearest integer, ties to even (den > 0).
RoundHalfEven(num, den) ==
  LET q == num \div den
      r == num % den
  IN IF 2 * r < den THEN q
     ELSE IF 2 * r > den THEN q + 1
     ELSE IF q % 2 = 0 THEN q ELSE q + 1

\* f"{x:.<d>f}" of x = v[1] / (v[2] * unit): the text "nan" for NaN, else the
\* number rounded to 1/scale, held as an integer count of 1/scale.
Format(v, scale, unit) ==
  IF v = NaN THEN [nan |-> TRUE, val |-> 0]
  ELSE [nan |-> FALSE, val |-> RoundHalfEven(v[1] * scale, v[2] * unit)]

\* int(x) of a decimal held in 1/AdrScale: truncation towards zero.
int(x) == IF x >= 0 THEN x \div AdrScale ELSE -((-x) \div AdrScale)

SeqMin(s) == CHOOSE x \in { s[i] : i \in DOMAIN s } : \A j \in DOMAIN s : x <= s[j]
SeqMax(s) == CHOOSE x \in { s[i] : i \in DOMAIN s } : \A j \in DOMAIN s : x >= s[j]

min_adr_of(t) == int(SeqMin(Column(t, "adr")))
max_adr_of(t) == int(SeqMax(Column(t, "adr")))

\* The tables the dashboard is run on: st.slider is given a range with
\* min_adr < max_adr.
CsvTables == { t \in AllCsvTables : min_adr_of(t) < max_adr_of(t) }

\* --------------------------------------------------------------- tab 1
\* Revenue counting the week nights only.
RevenueWeekNightsOnly(r) == r["adr"] * r["stays_in_week_nights"]

Revenue(r) == r["adr"] * (r["stays_in_week_nights"] + r["stays_in_weekend_nights"])

RevenueSeries(t) == [i \in 1..Len(t.rows) |-> Revenue(t.rows[i])]

TotalBookings(t) == Len(t.rows)
AvgAdrMetric(t) == Format(Mean(Column(t, "adr")), 100, AdrScale)
TotalRevenueMetric(t) == Format(<<SeriesSum(RevenueSeries(t)), 1>>, 1, AdrScale)
CancellationMetric(t) ==
  LET m == Mean(Column(t, "is_canceled"))
  IN Format(IF m = NaN THEN NaN ELSE <<m[1] * 100, m[2]>>, 10, 1)

\* ------------------------------------------------------- value_counts
\* The distinct values of a series in order of first appearance.
RECURSIVE FirstSeen(_, _)
FirstSeen(s, seen) ==
  IF s = <<>> THEN <<>>
  ELSE IF Head(s) \in seen THEN FirstSeen(Tail(s), seen)
  ELSE <<Head(s)>> \o FirstSeen(Tail(s), seen \cup {Head(s)})

\* The non-NaN entries of a nullable series, in order.
dropna(s) == BoolIndexRows(s, [i \in 1..Len(s) |-> s[i] # NaN])

CountOf(s, v) == Cardinality({ i \in DOMAIN s : s[i] = v })

\* keys and counts as the hash table yields them (dropna=True).
Counted(s) ==
  LET keys == FirstSeen(dropna(s), {})
  IN [i \in 1..Len(keys) |-> [value |-> keys[i], count |-> CountOf(s, keys[i])]]

\* Insert p behind every entry whose count is >= p.count.
RECURSIVE InsertDesc(_, _)
InsertDesc(sorted, p) ==
  IF sorted = <<>> THEN <<p>>
  ELSE IF Head(sorted).count >= p.count
       THEN <<Head(sorted)>> \o InsertDesc(Tail(sorted), p)
       ELSE <<p>> \o sorted

RECURSIVE StableDesc(_)
StableDesc(ps) ==
  IF ps = <<>> THEN <<>>
  ELSE InsertDesc(StableDesc(SubSeq(ps, 1, Len(ps) - 1)), ps[Len(ps)])

SwapAt(s, i) == [s EXCEPT ![i] = s[i + 1], ![i + 1] = s[i]]

\* sort_values(ascending=False) uses an unstable sort (kind="quicksort"): entries
\* of equal count may come in any order.  The orders considered are those within
\* k exchanges of neighbouring equal-count entries of the stable order.
RECURSIVE TieOrders(_, _)
TieOrders(s, k) ==
  IF k = 0 THEN {s}
  ELSE {s} \cup UNION { TieOrders(SwapAt(s, i), k - 1) :
                          i \in { j \in 1..(Len(s) - 1) : s[j].count = s[j + 1].count } }

\* Series.value_counts(): every result the sort may produce.
value_counts(s) == TieOrders(StableDesc(Counted(s)), MaxSwaps)

\* head keeping one entry too many.
head_one_more(s, n) == SubSeq(s, 1, IF Len(s) < n + 1 THEN Len(s) ELSE n + 1)

head(s, n) == SubSeq(s, 1, IF Len(s) < n THEN Len(s) ELSE n)

\* --------------------------------------------------------------- tab 2
order ==
  <<"January", "February", "March", "April", "May", "June", "July", "August",
    "September", "October", "November", "December">>

\* The month names as Python's string comparison sorts them.
MonthsSorted ==
  <<"April", "August", "December", "February", "January", "July", "June",
    "March", "May", "November", "October", "September">>

IndexIn(s, v) == CHOOSE i \in DOMAIN s : s[i] = v

KeyLess(a, b) ==
  \/ a[1] < b[1]
  \/ a[1] = b[1] /\ IndexIn(MonthsSorted, a[2]) < IndexIn(MonthsSorted, b[2])

\* groupby(sort=True): the observed group keys in ascending key order.
RECURSIVE SortedKeys(_)
SortedKeys(K) ==
  IF K = {} THEN <<>>
  ELSE LET k == CHOOSE x \in K : \A y \in K \ {x} : KeyLess(x, y)
       IN <<k>> \o SortedKeys(K \ {k})

RowsWhere(t, c, v) == BoolIndexRows(t.rows, [i \in 1..Len(t.rows) |-> t.rows[i][c] = v])

\* filtered_df.groupby(['arrival_date_year','arrival_date_month'])['adr'].mean().reset_index()
MonthlyAdr(t) ==
  LET keys == SortedKeys({ <<t.rows[i]["arrival_date_year"], t.rows[i]["arrival_date_month"]>> :
                             i \in 1..Len(t.rows) })
      grp(k) == BoolIndexRows(t.rows,
                  [i \in 1..Len(t.rows) |->
                     /\ t.rows[i]["arrival_date_year"] = k[1]
                     /\ t.rows[i]["arrival_date_month"] = k[2]])
  IN [i \in 1..Len(keys) |->
        [arrival_date_year |-> keys[i][1], arrival_date_month |-> keys[i][2],
         adr |-> Mean([j \in 1..Len(grp(keys[i])) |-> grp(keys[i])[j]["adr"]])]]

\* sns.lineplot(x="arrival_date_month", sort=False): a string x is placed at the
\* number of distinct x values plotted before its first appearance; then
\* set_xticks(range(len(order))) and set_xticklabels(order) label position p with
\* order[p].
LinePlot(m) ==
  LET xs == FirstSeen([i \in 1..Len(m) |-> m[i].arrival_date_month], {})
  IN [i \in 1..Len(m) |->
        [arrival_date_year |-> m[i].arrival_date_year,
         arrival_date_month |-> m[i].arrival_date_month,
         adr |-> m[i].adr,
         x |-> IndexIn(xs, m[i].arrival_date_month) - 1,
         ticklabel |-> order[IndexIn(xs, m[i].arrival_date_month)]]]

\* --------------------------------------------------------------- tab 3
UpgradeRate(t) ==
  LET m == Mean([i \in 1..Len(t.rows) |->
                   IF t.rows[i]["assigned_room_type"] # t.rows[i]["reserved_room_type"]
                   THEN 1 ELSE 0])
  IN IF m = NaN THEN NaN ELSE <<m[1] * 100, m[2]>>

UpgradeMetric(rate) == Format(rate, 100, 1)

\* --------------------------------------------------------------- tab 4
\* groupby('arrival_date_month')[c].mean().reindex(order)
MonthCancel(t) ==
  [i \in 1..Len(order) |->
     [arrival_date_month |-> order[i],
      value |-> LET g == RowsWhere(t, "arrival_date_month", order[i])
                IN Mean([j \in 1..Len(g) |-> g[j]["is_canceled"]])]]

\* filtered_df["revenue"] = ...: the frame gains the column.
AssignRevenue(t) ==
  [columns |-> t.columns \cup {"revenue"},
   rows |-> [i \in 1..Len(t.rows) |->
               [c \in DOMAIN t.rows[i] \cup {"revenue"} |->
                  IF c = "revenue" THEN Revenue(t.rows[i]) ELSE t.rows[i][c]]]]

\* groupby('arrival_date_month')["revenue"].sum().reindex(order): NaN for a
\* month with no group.
RevenueMonth(t) ==
  [i \in 1..Len(order) |->
     [arrival_date_month |-> order[i],
      value |-> LET g == RowsWhere(t, "arrival_date_month", order[i])
                IN IF g = <<>> THEN NaN
                   ELSE <<SeriesSum([j \in 1..Len(g) |-> g[j]["revenue"]])>>]]

\* ---------------------------------------------------------- the script
Unbound ==
  /\ filtered_df = NoFrame
  /\ kpi1 = NoValue /\ kpi2 = NoValue /\ kpi3 = NoValue /\ kpi4 = NoValue
  /\ top_countries = NoValue
  /\ monthly_adr = NoValue /\ adr_over_time = NoValue
  /\ upgrade_rate = NoValue
  /\ month_cancel = NoValue /\ revenue_month = NoValue
  /\ top_agents = NoValue

Init ==
  /\ csv \in CsvTables
  /\ cache = NoFrame
  /\ df = NoFrame
  /\ hotel_types = {} /\ years = {} /\ months = {} /\ customer_types = {}
  /\ adr_range = <<0, 0>>
  /\ Unbound
  /\ pc = "load"
  /\ runs = 0

\* df = load_data(): st.cache_data runs the function once and hands every
\* later call a copy of the stored value.
Load ==
  /\ pc = "load"
  /\ IF cache = NoFrame
     THEN /\ cache' = load_data(csv)
          /\ df' = load_data(csv)
     ELSE /\ df' = cache
          /\ UNCHANGED cache
  /\ pc' = "sidebar"
  /\ UNCHANGED <<csv, widgets, filtered_df, results, runs>>

\* The sidebar: on the session's first run each widget returns its default,
\* afterwards the value the user left it at.
Sidebar ==
  /\ pc = "sidebar"
  /\ IF runs = 0
     THEN /\ hotel_types' = Unique(df, "hotel")
          /\ years' = Unique(df, "arrival_date_year")
          /\ months' = Unique(df, "arrival_date_month")
          /\ customer_types' = Unique(df, "customer_type")
          /\ adr_range' = <<min_adr_of(df), max_adr_of(df)>>
     ELSE UNCHANGED widgets
  /\ pc' = "filter"
  /\ UNCHANGED <<csv, cache, df, filtered_df, results, runs>>

Filter ==
  /\ pc = "filter"
  /\ filtered_df' = FilterRows(df, hotel_types, years, months, customer_types, adr_range)
  /\ pc' = "tab1"
  /\ UNCHANGED <<csv, cache, df, widgets, results, runs>>

Tab1 ==
  /\ pc = "tab1"
  /\ kpi1' = TotalBookings(filtered_df)
  /\ kpi2' = AvgAdrMetric(filtered_df)
  /\ kpi3' = TotalRevenueMetric(filtered_df)
  /\ kpi4' = CancellationMetric(filtered_df)
  /\ \E vc \in value_counts(Column(filtered_df, "country")) :
        top_countries' = head(vc, TopN)
  /\ pc' = "tab2"
  /\ UNCHANGED <<csv, cache, df, widgets, filtered_df, monthly_adr, adr_over_time,
                 upgrade_rate, month_cancel, revenue_month, top_agents, runs>>

Tab2 ==
  /\ pc = "tab2"
  /\ monthly_adr' = MonthlyAdr(filtered_df)
  /\ adr_over_time' = LinePlot(MonthlyAdr(filtered_df))
  /\ pc' = "tab3"
  /\ UNCHANGED <<csv, cache, df, widgets, filtered_df, kpi1, kpi2, kpi3, kpi4,
                 top_countries, upgrade_rate, month_cancel, revenue_month,
                 top_agents, runs>>

Tab3 ==
  /\ pc = "tab3"
  /\ upgrade_rate' = [value |-> UpgradeRate(filtered_df),
                      metric |-> UpgradeMetric(UpgradeRate(filtered_df))]
  /\ pc' = "tab4"
  /\ UNCHANGED <<csv, cache, df, widgets, filtered_df, kpi1, kpi2, kpi3, kpi4,
                 top_countries, monthly_adr, adr_over_time, month_cancel,
                 revenue_month, top_agents, runs>>

\* Tab 4 with the revenue column also written through to the cached table.
Tab4WritesThrough ==
  /\ pc = "tab4"
  /\ month_cancel' = MonthCancel(filtered_df)
  /\ filtered_df' = AssignRevenue(filtered_df)
  /\ cache' = AssignRevenue(cache)
  /\ revenue_month' = RevenueMonth(AssignRevenue(filtered_df))
  /\ pc' = "tab5"
  /\ UNCHANGED <<csv, df, widgets, kpi1, kpi2, kpi3, kpi4, top_countries,
                 monthly_adr, adr_over_time, upgrade_rate, top_agents, runs>>

Tab4 ==
  /\ pc = "tab4"
  /\ month_cancel' = MonthCancel(filtered_df)
  /\ filtered_df' = AssignRevenue(filtered_df)
  /\ revenue_month' = RevenueMonth(AssignRevenue(filtered_df))
  /\ pc' = "tab5"
  /\ UNCHANGED <<csv, cache, df, widgets, kpi1, kpi2, kpi3, kpi4, top_countries,
                 monthly_adr, adr_over_time, upgrade_rate, top_agents, runs>>

Tab5 ==
  /\ pc = "tab5"
  /\ \E vc \in value_counts(Column(filtered_df, "agent")) :
        top_agents' = head(vc, TopN)
  /\ pc' = "done"
  /\ UNCHANGED <<csv, cache, df, widgets, filtered_df, kpi1, kpi2, kpi3, kpi4,
                 top_countries, monthly_adr, adr_over_time, upgrade_rate,
                 month_cancel, revenue_month, runs>>

\* ------------------------------------------------------------ the user
\* A widget change reruns the script from the top in a fresh namespace; only
\* the widget values and the cache outlive the run.
Rerun ==
  /\ pc = "done"
  /\ runs < MaxInteractions
  /\ runs' = runs + 1
  /\ pc' = "load"
  /\ df' = NoFrame
  /\ filtered_df' = NoFrame
  /\ kpi1' = NoValue /\ kpi2' = NoValue /\ kpi3' = NoValue /\ kpi4' = NoValue
  /\ top_countries' = NoValue
  /\ monthly_adr' = NoValue /\ adr_over_time' = NoValue
  /\ upgrade_rate' = NoValue
  /\ month_cancel' = NoValue /\ revenue_month' = NoValue
  /\ top_agents' = NoValue
  /\ UNCHANGED <<csv, cache>>

Toggle(S, x) == IF x \in S THEN S \ {x} ELSE S \cup {x}

SelectHotel ==
  /\ Rerun
  /\ \E h \in Unique(df, "hotel") : hotel_types' = Toggle(hotel_types, h)
  /\ UNCHANGED <<years, months, customer_types, adr_range>>

SelectYear ==
  /\ Rerun
  /\ \E y \in Unique(df, "arrival_date_year") : years' = Toggle(years, y)
  /\ UNCHANGED <<hotel_types, months, customer_types, adr_range>>

SelectMonth ==
  /\ Rerun
  /\ \E m \in Unique(df, "arrival_date_month") : months' = Toggle(months, m)
  /\ UNCHANGED <<hotel_types, years, customer_types, adr_range>>

SelectCustomerType ==
  /\ Rerun
  /\ \E c \in Unique(df, "customer_type") : customer_types' = Toggle(customer_types, c)
  /\ UNCHANGED <<hotel_types, years, months, adr_range>>

\* The range slider: two integers lo <= hi within [min_adr, max_adr].
MoveSlider ==
  /\ Rerun
  /\ \E lo \in min_adr_of(df)..max_adr_of(df) :
       \E hi \in lo..max_adr_of(df) :
          /\ <<lo, hi>> # adr_range
          /\ adr_range' = <<lo, hi>>
  /\ UNCHANGED <<hotel_types, years, months, customer_types>>

Next ==
  \/ Load
  \/ Sidebar
  \/ Filter
  \/ Tab1
  \/ Tab2
  \/ Tab3
  \/ Tab4
  \/ Tab5
  \/ SelectHotel
  \/ SelectYear
  \/ SelectMonth
  \/ SelectCustomerType
  \/ MoveSlider

Spec == Init /\ [][Next]_vars

\* ------------------------------------------- the filter, on any filter spec
\* lines 40-46 applied to a loaded table and an arbitrary filter specification:
\* selections that may be empty or name values absent from the table, and a
\* range that may be inverted.
EngineHotels == {"Resort Hotel", "Hostel"}
EngineYears == {2015, 2016}
EngineMonths == {"April", "August"}
EngineCustomerTypes == {"Transient", "Group"}
EngineBounds == {0, 2}

InitFilter ==
  /\ csv \in AllCsvTables
  /\ cache = load_data(csv)
  /\ df = load_data(csv)
  /\ hotel_types \in SUBSET EngineHotels
  /\ years \in SUBSET EngineYears
  /\ months \in SUBSET EngineMonths
  /\ customer_types \in SUBSET EngineCustomerTypes
  /\ adr_range \in EngineBounds \X EngineBounds
  /\ Unbound
  /\ pc = "filter"
  /\ runs = 0

SpecFilter == InitFilter /\ [][Filter]_vars

\* ------------------------------------------- value_counts().head(10), on long columns
\* Frames with up to MaxDistinct distinct agents: the agents 1..k once each, in
\* ascending or descending order, with up to MaxExtra further bookings of some
\* of them before and after.
AgentSeqs(k, n) == UNION { [1..j -> 1..k] : j \in 0..n }

AgentColumns ==
  { pre \o base \o post :
      <<pre, base, post>> \in
        UNION { { <<a, b, c>> \in
                    AgentSeqs(k, MaxExtra)
                    \X { [i \in 1..k |-> i], [i \in 1..k |-> k + 1 - i] }
                    \X AgentSeqs(k, MaxExtra) :
                    Len(a) + Len(c) <= MaxExtra } : k \in 0..MaxDistinct } }

AgentFrames ==
  { [columns |-> {"agent"}, rows |-> [i \in 1..Len(col) |-> [agent |-> <<col[i]>>]]] :
      col \in AgentColumns }

InitTop ==
  /\ csv = NoFrame /\ cache = NoFrame /\ df = NoFrame
  /\ hotel_types = {} /\ years = {} /\ months = {} /\ customer_types = {}
  /\ adr_range = <<0, 0>>
  /\ filtered_df \in AgentFrames
  /\ kpi1 = NoValue /\ kpi2 = NoValue /\ kpi3 = NoValue /\ kpi4 = NoValue
  /\ top_countries = NoValue
  /\ monthly_adr = NoValue /\ adr_over_time = NoValue
  /\ upgrade_rate = NoValue
  /\ month_cancel = NoValue /\ revenue_month = NoValue
  /\ top_agents = NoValue
  /\ pc = "tab5"
  /\ runs = 0

SpecTop == InitTop /\ [][Tab5]_vars

\* =============================================================== claims
Loaded == load_data(csv)
Expected == FilterRows(Loaded, hotel_types, years, months, customer_types, adr_range)

\* The five predicates of a filter specification, on one record.
Satisfies(r) ==
  /\ r["hotel"] \in hotel_types
  /\ r["arrival_date_year"] \in years
  /\ r["arrival_date_month"] \in months
  /\ r["customer_type"] \in customer_types
  /\ adr_range[1] * AdrScale <= r["adr"]
  /\ r["adr"] <= adr_range[2] * AdrScale

Kept == { i \in 1..Len(df.rows) : Satisfies(df.rows[i]) }

\* The k-th smallest index of Kept.
KthKept(k) == CHOOSE i \in Kept : Cardinality({ j \in Kept : j <= i }) = k

\* C1: the filtered table is exactly the records of the loaded table that
\* satisfy all five predicates (adr bounds inclusive), in their original order;
\* it is never larger than the source.
C1_FilterExact ==
  pc = "tab1" =>
    /\ filtered_df.columns = df.columns
    /\ Len(filtered_df.rows) = Cardinality(Kept)
    /\ Len(filtered_df.rows) <= Len(df.rows)
    /\ \A k \in 1..Len(filtered_df.rows) : filtered_df.rows[k] = df.rows[KthKept(k)]

C1_Witness ==
  /\ pc = "tab1"
  /\ Len(df.rows) = 3
  /\ Kept = {1, 3}
  /\ df.rows[1] # df.rows[3]
  /\ df.rows[1]["adr"] = adr_range[1] * AdrScale
  /\ df.rows[3]["adr"] = adr_range[2] * AdrScale
  /\ df.rows[2]["adr"] > adr_range[2] * AdrScale
  /\ filtered_df.rows = <<df.rows[1], df.rows[3]>>

\* C4: an empty hotel, year, month or customer-type selection yields an empty
\* filtered table, whatever the other filters are, and the filter completes.
C4_EmptySelection ==
  /\ pc = "filter" => ENABLED Filter
  /\ (pc = "tab1" /\ ( \/ hotel_types = {} \/ years = {}
                       \/ months = {} \/ customer_types = {} ))
       => filtered_df.rows = <<>>

C4_Witness ==
  /\ pc = "tab1"
  /\ months = {}
  /\ hotel_types # {} /\ years # {} /\ customer_types # {}
  /\ \E i \in 1..Len(df.rows) :
        /\ df.rows[i]["hotel"] \in hotel_types
        /\ df.rows[i]["arrival_date_year"] \in years
        /\ df.rows[i]["customer_type"] \in customer_types
        /\ adr_range[1] * AdrScale <= df.rows[i]["adr"]
        /\ df.rows[i]["adr"] <= adr_range[2] * AdrScale
  /\ filtered_df.rows = <<>>

\* C5: an inverted ADR range yields an empty filtered table whatever the other
\* filters are, a selection naming only values that occur in no record matches
\* nothing, and in both cases the filter completes.
C5_InvertedRange ==
  /\ pc = "filter" => ENABLED Filter
  /\ (pc = "tab1" /\ adr_range[1] > adr_range[2]) => filtered_df.rows = <<>>
  /\ (pc = "tab1" /\ hotel_types \cap Unique(df, "hotel") = {}) => filtered_df.rows = <<>>
  /\ (pc = "tab1" /\ years \cap Unique(df, "arrival_date_year") = {})
       => filtered_df.rows = <<>>
  /\ (pc = "tab1" /\ months \cap Unique(df, "arrival_date_month") = {})
       => filtered_df.rows = <<>>
  /\ (pc = "tab1" /\ customer_types \cap Unique(df, "customer_type") = {})
       => filtered_df.rows = <<>>
  /\ pc = "tab1" => \A k \in 1..Len(filtered_df.rows) : filtered_df.rows[k]["hotel"] # "Hostel"

C5_Witness ==
  /\ pc = "tab1"
  /\ adr_range[1] > adr_range[2]
  /\ "Hostel" \in hotel_types
  /\ \E i \in 1..Len(df.rows) :
        /\ df.rows[i]["hotel"] \in hotel_types
        /\ df.rows[i]["arrival_date_year"] \in years
        /\ df.rows[i]["arrival_date_month"] \in months
        /\ df.rows[i]["customer_type"] \in customer_types
        /\ adr_range[2] * AdrScale <= df.rows[i]["adr"]
        /\ df.rows[i]["adr"] <= adr_range[1] * AdrScale
  /\ filtered_df.rows = <<>>

\* C3 (as stated): once all five tabs are computed, filtered_df still is what
\* the filter produced (same records, same fields, no revenue stored) and the
\* loaded table is unchanged.
C3_MetricsDoNotMutate ==
  pc = "done" =>
    /\ df = Loaded
    /\ filtered_df = FilterRows(df, hotel_types, years, months, customer_types, adr_range)

\* C2 (as stated): on an empty filtered table no displayed KPI is NaN.
C2_NoNaNDisplayed ==
  (pc = "done" /\ filtered_df.rows = <<>>) =>
    /\ ~kpi2.nan
    /\ ~kpi4.nan
    /\ ~upgrade_rate.metric.nan

CalendarIndex(m) == IndexIn(order, m)

\* C6 (as stated): every month-grouped series is in calendar order, and each
\* ADR-over-time point sits at the tick labelled with its own month.
C6_CalendarOrder ==
  pc = "done" =>
    /\ \A i, j \in 1..Len(monthly_adr) :
          (i < j /\ monthly_adr[i].arrival_date_year = monthly_adr[j].arrival_date_year)
            => CalendarIndex(monthly_adr[i].arrival_date_month)
                 < CalendarIndex(monthly_adr[j].arrival_date_month)
    /\ \A i \in 1..Len(adr_over_time) :
          adr_over_time[i].ticklabel = adr_over_time[i].arrival_date_month
    /\ \A i \in 1..Len(month_cancel) : month_cancel[i].arrival_date_month = order[i]
    /\ \A i \in 1..Len(revenue_month) : revenue_month[i].arrival_date_month = order[i]

\* C10 (as stated): with every control at its default the filtered table is
\* the loaded table.
C10_DefaultsKeepAll ==
  (pc = "tab1" /\ runs = 0) => filtered_df = df

\* C7: in every interaction the filtered table and the KPIs are those of the
\* current filter specification applied to the originally loaded (imputed)
\* table, and the loaded table is the same in every interaction; the only
\* revenue column is the one this interaction's tab 4 derived from these rows.
C7_NoCarryOver ==
  /\ cache \in {NoFrame, Loaded}
  /\ pc # "load" => df = Loaded
  /\ pc \in {"load", "sidebar", "filter"} => Unbound
  /\ pc \in {"tab1", "tab2", "tab3", "tab4"} => filtered_df = Expected
  /\ pc \in {"tab5", "done"} => filtered_df = AssignRevenue(Expected)
  /\ pc \in {"tab2", "tab3", "tab4", "tab5", "done"} =>
       /\ kpi1 = Len(Expected.rows)
       /\ kpi2 = AvgAdrMetric(Expected)
       /\ kpi3 = TotalRevenueMetric(Expected)
       /\ kpi4 = CancellationMetric(Expected)
       /\ \E vc \in value_counts(Column(Expected, "country")) :
             top_countries = head(vc, TopN)
  /\ pc \in {"tab4", "tab5", "done"} =>
       upgrade_rate.metric = UpgradeMetric(UpgradeRate(Expected))
  /\ pc = "done" =>
       \E vc \in value_counts(Column(Expected, "agent")) : top_agents = head(vc, TopN)

C7_Witness ==
  /\ pc = "done"
  /\ runs = 2
  /\ Len(Expected.rows) >= 1
  /\ Len(Expected.rows) < Len(Loaded.rows)
  /\ hotel_types # Unique(Loaded, "hotel")
  /\ adr_range # <<min_adr_of(Loaded), max_adr_of(Loaded)>>
  /\ "revenue" \in filtered_df.columns
  /\ "revenue" \notin df.columns

RECURSIVE SumOver(_, _)
SumOver(S, t) ==
  IF S = {} THEN 0
  ELSE LET i == CHOOSE x \in S : TRUE
       IN t.rows[i]["adr"] * t.rows[i]["stays_in_week_nights"]
          + t.rows[i]["adr"] * t.rows[i]["stays_in_weekend_nights"]
          + SumOver(S \ {i}, t)

\* C9: the total revenue shown is the sum over the retained records of
\* adr * (week nights + weekend nights), shown to the nearest unit, and it is
\* the number 0 (not NaN) for an empty filtered table.
C9_TotalRevenue ==
  pc \in {"tab2", "tab3", "tab4"} =>
    /\ ~kpi3.nan
    /\ kpi3.val = RoundHalfEven(SumOver(1..Len(filtered_df.rows), filtered_df), AdrScale)
    /\ filtered_df.rows = <<>> => kpi3.val = 0

C9_Witness ==
  /\ pc = "tab2"
  /\ Len(filtered_df.rows) = 2
  /\ Len(df.rows) = 3
  /\ kpi3.val > 0
  /\ \E i \in 1..2 : filtered_df.rows[i]["stays_in_weekend_nights"] > 0
  /\ SumOver(1..2, filtered_df) % AdrScale # 0

Values(col) == { col[i] : i \in DOMAIN col }
Occurrences(col, v) == { i \in DOMAIN col : col[i] = v }
FirstAt(col, v) == CHOOSE i \in Occurrences(col, v) : \A j \in Occurrences(col, v) : i <= j
Smaller(a, b) == IF a < b THEN a ELSE b

\* u ranks before v: more bookings, or as many and encountered first.
RanksBefore(col, u, v) ==
  \/ Cardinality(Occurrences(col, u)) > Cardinality(Occurrences(col, v))
  \/ /\ Cardinality(Occurrences(col, u)) = Cardinality(Occurrences(col, v))
     /\ FirstAt(col, u) < FirstAt(col, v)

\* A top list as C8 states it: entry k is the value that exactly k-1 values
\* rank before, with its count, for k up to min(10, distinct values).
TopListFirstSeen(top, col) ==
  /\ Len(top) = Smaller(TopN, Cardinality(Values(col)))
  /\ \A k \in 1..Len(top) :
        /\ top[k].value \in Values(col)
        /\ top[k].count = Cardinality(Occurrences(col, top[k].value))
        /\ Cardinality({ v \in Values(col) : RanksBefore(col, v, top[k].value) }) = k - 1

\* The same with the order among equal counts left open.
TopListByCount(top, col) ==
  /\ Len(top) = Smaller(TopN, Cardinality(Values(col)))
  /\ \A k \in 1..Len(top) :
        /\ top[k].value \in Values(col)
        /\ top[k].count = Cardinality(Occurrences(col, top[k].value))
  /\ \A j, k \in 1..Len(top) :
        j < k => top[j].value # top[k].value /\ top[j].count >= top[k].count
  /\ \A v \in Values(col) :
        (\A k \in 1..Len(top) : top[k].value # v)
          => \A k \in 1..Len(top) : top[k].count >= Cardinality(Occurrences(col, v))

\* C8 (as stated): the top-10 lists are sorted by count descending with ties
\* in first-encountered order, truncated to min(10, distinct values), each
\* count the number of retained records carrying the value.
C8_TopTenFirstSeen ==
  /\ pc \in {"tab2", "tab3", "tab4"} =>
        TopListFirstSeen(top_countries, Column(filtered_df, "country"))
  /\ pc = "done" => TopListFirstSeen(top_agents, Column(filtered_df, "agent"))

\* C8 (amended): the top-10 lists are sorted by count descending, hold
\* min(10, distinct values) distinct values each with the number of retained
\* records carrying it, and omit no value with a larger count than an entry;
\* the order among values of equal count is not determined.
C8_TopTenByCount ==
  /\ pc \in {"tab2", "tab3", "tab4"} =>
        TopListByCount(top_countries, Column(filtered_df, "country"))
  /\ pc = "done" => TopListByCount(top_agents, Column(filtered_df, "agent"))

C8_Witness ==
  /\ pc = "done"
  /\ Cardinality(Values(Column(filtered_df, "agent"))) > TopN
  /\ Len(top_agents) = TopN
  /\ top_agents[1].count = 2
  /\ top_agents[2].count = 1
  /\ ~TopListFirstSeen(top_agents, Column(filtered_df, "agent"))

====
